---- MODULE Spec2Model ----
(***************************************************************************)
(* State core of the arbitrage dashboard (AppComponent): the signals the   *)
(* component owns, the auto-refresh scheduler built on setInterval, and    *)
(* the asynchronous refresh() that fetches the opportunity list.           *)
(*                                                                         *)
(* Time is in milliseconds.  One step of the model is one run-to-          *)
(* completion piece of JavaScript: a template handler, the effect, a timer *)
(* callback, the settling of an awaited HTTP call; or the passing of time. *)
(*                                                                         *)
(* The effect: signal reads made while the effect function runs, in the    *)
(* functions it calls too, are what the effect depends on; refresh() runs  *)
(* synchronously up to its await, so an effect run that starts the         *)
(* scheduler also reads the signals refresh() reads.  Signal writes made   *)
(* there take effect as anywhere else.                                     *)
(*                                                                         *)
(* Scheduling of the effect: Angular flushes a dirty effect at the end of  *)
(* the task that wrote the signal (microtask / change detection), before   *)
(* the event loop takes the next task.  So several handlers may write      *)
(* signals before the effect runs (they coalesce), but no timer callback,  *)
(* no HTTP completion and no passing of time comes between a write and the *)
(* effect's run.                                                           *)
(*                                                                         *)
(* Specifications: Spec is the scheduler and the fetch cycle of            *)
(* app.component.ts; SpecRequests adds the API base box, thresholds that   *)
(* are no finite number and a log of the http.get calls; SpecView is the   *)
(* derived view filtered() under changing search text, threshold and       *)
(* record sets; SpecExtended is the fetch cycle of the later versions of   *)
(* the component, which have a sort key and direction.                     *)
(***************************************************************************)
EXTENDS Integers, Sequences, FiniteSets, TLC

(***************************************************************************)
(* Bounds of the model.                                                    *)
(***************************************************************************)
\* The clock advances at most this many quanta.
MaxSteps == 4
\* Most HTTP requests outstanding at once.
MaxInFlight == 2

(***************************************************************************)
(* JavaScript numbers: a finite value, NaN, or +/-Infinity.                *)
(***************************************************************************)
Fin(n) == [k |-> "fin", n |-> n]
NaN == [k |-> "nan", n |-> 0]
PosInf == [k |-> "inf", n |-> 1]
NegInf == [k |-> "inf", n |-> -1]

\* Values a template handler receives (number | string).
NumArg(x) == [t |-> "number", x |-> x, s |-> ""]
StrArg(s) == [t |-> "string", x |-> NaN, s |-> s]

\* Number(value): a number is itself; a string is parsed, and whatever is
\* not a numeric literal is NaN.  The empty string is 0.
Number(value) ==
  IF value.t = "number" THEN value.x
  ELSE CASE value.s = "" -> Fin(0)
         [] value.s = "500" -> Fin(500)
         [] value.s = "2000" -> Fin(2000)
         [] value.s = "Infinity" -> PosInf
         [] value.s = "-Infinity" -> NegInf
         [] OTHER -> NaN

NumberIsNaN(x) == x.k = "nan"

\* Math.max(a, b): NaN if either is NaN.
MathMax(a, b) ==
  IF a.k = "nan" \/ b.k = "nan" THEN NaN
  ELSE IF a = PosInf \/ b = PosInf THEN PosInf
  ELSE IF a = NegInf THEN b
  ELSE IF b = NegInf THEN a
  ELSE IF a.n >= b.n THEN a ELSE b

\* Number.isFinite(x).
NumberIsFinite(x) == x.k = "fin"

\* a >= b on JavaScript numbers (false when either is NaN).
NumGeq(a, b) ==
  IF a.k = "nan" \/ b.k = "nan" THEN FALSE
  ELSE IF a = PosInf \/ b = NegInf THEN TRUE
  ELSE IF a = NegInf \/ b = PosInf THEN FALSE
  ELSE a.n >= b.n

(***************************************************************************)
(* JavaScript strings the program takes apart: a sequence of pieces, one   *)
(* character each where the characters matter (symbols, the search text),  *)
(* longer where only the joints do (urls).                                 *)
(***************************************************************************)
\* String(x) of a threshold, which the model counts in tenths of a percent.
NumberString(x) ==
  CASE x.k = "nan" -> "NaN"
    [] x = PosInf -> "Infinity"
    [] x = NegInf -> "-Infinity"
    [] OTHER -> IF x.n % 10 = 0 THEN ToString(x.n \div 10)
                ELSE ToString(x.n \div 10) \o "." \o ToString(x.n % 10)

\* s.replace(/\/$/, ''): one slash at the end is dropped.
StripTrailingSlash(s) ==
  IF Len(s) > 0 /\ s[Len(s)] = "/" THEN SubSeq(s, 1, Len(s) - 1) ELSE s

\* c.toUpperCase() of one character.
UpperChar(c) ==
  CASE c = "b" -> "B" [] c = "c" -> "C" [] c = "e" -> "E" [] c = "h" -> "H"
    [] c = "l" -> "L" [] c = "t" -> "T" [] c = "w" -> "W" [] c = "x" -> "X"
    [] OTHER -> c

\* s.toUpperCase().
ToUpperCase(s) == [i \in 1..Len(s) |-> UpperChar(s[i])]

\* s.trim(): white space is dropped at both ends.
Trim(s) ==
  LET inked == { i \in 1..Len(s) : s[i] # " " }
  IN IF inked = {} THEN << >>
     ELSE SubSeq(s, CHOOSE i \in inked : \A j \in inked : i <= j,
                    CHOOSE i \in inked : \A j \in inked : i >= j)

\* Mutant: the query has to stand at the start of the string.
IncludesAtStart(s, q) == Len(q) <= Len(s) /\ SubSeq(s, 1, Len(q)) = q

\* s.includes(q).
Includes(s, q) ==
  \E i \in 1..(Len(s) - Len(q) + 1) : SubSeq(s, i, i + Len(q) - 1) = q

(***************************************************************************)
(* Program constants.                                                      *)
(***************************************************************************)
MIN_REFRESH_INTERVAL == 1000
DefaultAutoRefreshMs == 15000
\* 0.5, in tenths of a percent.
DefaultMinDiffPercent == 5
\* refreshTimer = null.  Timer handles are integers greater than zero, and
\* the code tests the handle for truthiness.
NoTimer == 0

\* Largest step of the clock; a step is cut short at the next timer expiry.
Quantum == MIN_REFRESH_INTERVAL \div 2
MaxTime == MaxSteps * Quantum
\* The age of a suspended refresh() is counted up to the floor: the model
\* needs to know only whether a request has been out for less than that.
AgeCap == MIN_REFRESH_INTERVAL

NoError == [isNull |-> TRUE, message |-> ""]
ErrorMessage(m) == [isNull |-> FALSE, message |-> m]
DEFAULT_API_BASE == << "https://arbitrage-production-e91f.up.railway.app" >>
\* filtered() has not been read yet.
NoView == [storage |-> "none", items |-> << >>]
NoDate == [isNull |-> TRUE, time |-> 0]
DateAt(t) == [isNull |-> FALSE, time |-> t]

(***************************************************************************)
(* Inputs.                                                                 *)
(***************************************************************************)
\* What the user may type into the interval box.
IntervalInputs ==
  { NumArg(Fin(500)), NumArg(Fin(1000)),
    StrArg("abc"), StrArg("Infinity"), StrArg("-Infinity") }

\* What the user may type into the threshold box (tenths of a percent).
MinDiffInputs == { NumArg(Fin(5)), StrArg("abc") }

\* Opportunity records, reduced to the fields the core reads
\* (netDiff in tenths of a percent).
Rec(sym, nd) == [symbol |-> sym, netDiff |-> nd]
BTC == << "B", "T", "C" >>
ETH == << "E", "T", "H" >>
LTC == << "L", "T", "C" >>
Payloads ==
  { << >>,
    << Rec(BTC, 12), Rec(ETH, 12), Rec(LTC, 3) >> }

\* What the awaited HTTP call can reject with: an HttpErrorResponse (which is
\* not an instance of Error) or an Error (firstValueFrom's EmptyError).
Rejections ==
  { [isError |-> FALSE, message |-> "Http failure response"],
    [isError |-> TRUE, message |-> "no elements in sequence"] }

VARIABLES
  minDiffPercent,       \* signal<number>, in tenths of a percent
  autoRefreshMs,        \* signal<number>
  autoRefreshEnabled,   \* signal<boolean>
  opportunities,        \* signal<ArbitrageOpportunity[]>
  loading,              \* signal<boolean>
  error,                \* signal<string | null>
  lastUpdated,          \* signal<Date | null>
  refreshTimer,         \* the scheduler's handle, NoTimer when null
  timers,               \* the platform's live interval timers, by handle
  inflight,             \* refresh() calls suspended at the await, in issue order
  effectDirty,          \* the auto-refresh effect is scheduled to run
  effectDeps,           \* the signals the effect read in its last run
  destroyed,            \* the component has been destroyed
  now,                  \* the clock
  apiBase,              \* signal<string>
  search,               \* signal<string>
  lastRequest,          \* the url and params of the latest http.get call
  view,                 \* what the latest read of filtered() returned
  sortKey,              \* later versions: signal<SortKey>
  sortDir,              \* later versions: signal<SortDir>
  useMinFilter          \* later versions: signal<boolean>

vars == << minDiffPercent, autoRefreshMs, autoRefreshEnabled, opportunities,
           loading, error, lastUpdated, refreshTimer, timers, inflight,
           effectDirty, effectDeps, destroyed, now, apiBase, search,
           lastRequest, view, sortKey, sortDir, useMinFilter >>

signals == << minDiffPercent, autoRefreshMs, autoRefreshEnabled >>
effectState == << effectDirty, effectDeps >>
fetchState == << opportunities, loading, error, lastUpdated >>
scheduler == << refreshTimer, timers >>
\* The signals of the later versions of the component.
extended == << sortKey, sortDir, useMinFilter >>
\* What the scheduler, its handlers and refresh() never write.
passive == << apiBase, search, view, extended >>

Min(a, b) == IF a <= b THEN a ELSE b

(***************************************************************************)
(* The platform's setInterval / clearInterval.                             *)
(***************************************************************************)
\* The delay setInterval uses for its argument: the argument converted to a
\* 32-bit integer (NaN and the infinities convert to 0), negative values
\* taken as 0.
TimerDelay(ms) ==
  IF ms.k # "fin" THEN 0
  ELSE IF ms.n < 0 THEN 0 ELSE ms.n

\* A handle no live timer has.
FreshHandle(ts) ==
  CHOOSE h \in 1..(Cardinality(DOMAIN ts) + 1) : h \notin DOMAIN ts

\* setInterval(callback, ms) at time t: the live timers afterwards.  A timer
\* keeps the argument it was armed with (ms), the delay the platform uses,
\* when it was armed or last expired (last) and when it expires next (due).
SetInterval(ts, h, ms, t) ==
  [x \in DOMAIN ts \cup {h} |->
     IF x = h THEN [ms |-> ms, delay |-> TimerDelay(ms), last |-> t,
                    due |-> t + TimerDelay(ms)]
     ELSE ts[x]]

\* clearInterval(h): the live timers afterwards.
ClearInterval(ts, h) == [x \in DOMAIN ts \ {h} |-> ts[x]]

(***************************************************************************)
(* refresh(), up to its await: loading.set(true); error.set(null); the     *)
(* request is issued.                                                      *)
(***************************************************************************)
Fetch(origin) == [origin |-> origin, age |-> 0]

\* `${base}/api/arbitrage` with base = apiBase().replace(/\/$/, '').
RequestUrl(base) == StripTrailingSlash(base) \o << "/api/arbitrage" >>

\* { minDiffPercent: String(this.minDiffPercent()) }.
RequestParams(threshold) ==
  [name \in {"minDiffPercent"} |-> NumberString(threshold)]

Request(base, threshold) ==
  [logged |-> TRUE, url |-> RequestUrl(base), params |-> RequestParams(threshold)]

\* The log of http.get calls is kept where a specification starts it
\* (InitLogged); elsewhere it stays off.
NoLog == [logged |-> FALSE, url |-> << >>, params |-> [name \in {} |-> ""]]

RefreshStart(origin) ==
  /\ Len(inflight) < MaxInFlight
  /\ loading' = TRUE
  /\ error' = NoError
  /\ lastRequest' = IF lastRequest.logged THEN Request(apiBase, minDiffPercent)
                     ELSE lastRequest
  /\ inflight' = Append(inflight, Fetch(origin))
  /\ UNCHANGED << opportunities, lastUpdated >>

\* stopAutoRefresh(): the handle and the live timers afterwards.
StopAutoRefreshTimers(handle, ts) ==
  IF handle # NoTimer THEN ClearInterval(ts, handle) ELSE ts

StopAutoRefreshHandle(handle) == NoTimer

\* startAutoRefresh(intervalMs): stop, clamp, refresh, arm.
ClampInterval(intervalMs) == MathMax(Fin(MIN_REFRESH_INTERVAL), intervalMs)

\* Mutant: startAutoRefresh arms a new timer without stopping the old one.
StartAutoRefreshNoStop(intervalMs) ==
  LET ms == ClampInterval(intervalMs)
      h == FreshHandle(timers)
  IN /\ RefreshStart("enable")
     /\ timers' = SetInterval(timers, h, ms, now)
     /\ refreshTimer' = h

StartAutoRefresh(intervalMs) ==
  LET stopped == StopAutoRefreshTimers(refreshTimer, timers)
      ms == ClampInterval(intervalMs)
      h == FreshHandle(stopped)
  IN /\ RefreshStart("enable")
     /\ timers' = SetInterval(stopped, h, ms, now)
     /\ refreshTimer' = h

StopAutoRefresh ==
  /\ timers' = StopAutoRefreshTimers(refreshTimer, timers)
  /\ refreshTimer' = StopAutoRefreshHandle(refreshTimer)

(***************************************************************************)
(* Initial state: the constructor has run.  It called refresh(), created   *)
(* the effect (which is scheduled for its first run) and registered the    *)
(* destroy callback.                                                       *)
(***************************************************************************)
Constructed ==
  /\ minDiffPercent = Fin(DefaultMinDiffPercent)
  /\ autoRefreshMs = Fin(DefaultAutoRefreshMs)
  /\ autoRefreshEnabled = FALSE
  /\ opportunities = << >>
  /\ loading = TRUE
  /\ error = NoError
  /\ lastUpdated = NoDate
  /\ refreshTimer = NoTimer
  /\ timers = [h \in {} |-> 0]
  /\ inflight = << [origin |-> "constructor", age |-> 0] >>
  /\ effectDirty = TRUE
  /\ effectDeps = {}
  /\ destroyed = FALSE
  /\ now = 0
  /\ apiBase = DEFAULT_API_BASE
  /\ search = << >>
  /\ view = NoView
  /\ sortKey = "netDiff"
  /\ sortDir = "desc"
  /\ useMinFilter = TRUE

Init == Constructed /\ lastRequest = NoLog

\* The same, with the http.get calls logged from the constructor's on.
InitLogged ==
  Constructed /\ lastRequest = Request(DEFAULT_API_BASE, Fin(DefaultMinDiffPercent))

(***************************************************************************)
(* Template handlers.                                                      *)
(***************************************************************************)
\* The refresh button: refresh().
\* Mutant: the refresh button also restarts the wait of the running timer.
ManualRefreshRearming ==
  /\ ~destroyed
  /\ RefreshStart("manual")
  /\ timers' = [h \in DOMAIN timers |->
                 [timers[h] EXCEPT !.last = now, !.due = now + timers[h].delay]]
  /\ UNCHANGED << signals, refreshTimer, effectState, destroyed, now >>
  /\ UNCHANGED passive

ManualRefresh ==
  /\ ~destroyed
  /\ RefreshStart("manual")
  /\ UNCHANGED << signals, scheduler, effectState, destroyed, now >>
  /\ UNCHANGED passive

\* toggleAutoRefresh(): the signal changes, so the effect is scheduled.
\* A signal that is set to a new value schedules the effect if the effect
\* read it in its last run; set to the value it holds, it notifies nobody.
Notifies(name, old, new) == name \in effectDeps /\ new # old

ToggleAutoRefresh ==
  /\ ~destroyed
  /\ autoRefreshEnabled' = ~autoRefreshEnabled
  /\ effectDirty' = (effectDirty \/
                      Notifies("autoRefreshEnabled", autoRefreshEnabled, autoRefreshEnabled'))
  /\ UNCHANGED << minDiffPercent, autoRefreshMs, fetchState, scheduler, inflight,
                  effectDeps, destroyed, now >>
  /\ UNCHANGED << lastRequest, passive >>

\* Mutant: the parsed value is stored as it is.
SanitizeMinDiffRaw(value) == Number(value)

\* updateMinDiff(value).
SanitizeMinDiff(value) ==
  LET parsed == Number(value)
  IN IF NumberIsNaN(parsed) THEN Fin(0) ELSE parsed

UpdateMinDiff(value) ==
  /\ ~destroyed
  /\ minDiffPercent' = SanitizeMinDiff(value)
  /\ effectDirty' = (effectDirty \/
                      Notifies("minDiffPercent", minDiffPercent, minDiffPercent'))
  /\ UNCHANGED << autoRefreshMs, autoRefreshEnabled, fetchState, scheduler, inflight,
                  effectDeps, destroyed, now >>
  /\ UNCHANGED << lastRequest, passive >>

\* updateAutoInterval(value).
SanitizeInterval(value) ==
  LET numeric == Number(value)
  IN MathMax(Fin(MIN_REFRESH_INTERVAL),
             IF NumberIsNaN(numeric) THEN Fin(MIN_REFRESH_INTERVAL) ELSE numeric)

UpdateAutoInterval(value) ==
  /\ ~destroyed
  /\ autoRefreshMs' = SanitizeInterval(value)
  /\ effectDirty' = (effectDirty \/
                      Notifies("autoRefreshMs", autoRefreshMs, autoRefreshMs'))
  /\ UNCHANGED << minDiffPercent, autoRefreshEnabled, fetchState, scheduler, inflight,
                  effectDeps, destroyed, now >>
  /\ UNCHANGED << lastRequest, passive >>

(***************************************************************************)
(* The auto-refresh effect.                                                *)
(***************************************************************************)
\* The signals refresh() reads before its await.
RefreshReads == {"apiBase", "minDiffPercent"}

RunEffect ==
  /\ effectDirty
  /\ ~destroyed
  /\ effectDirty' = FALSE
  /\ IF autoRefreshEnabled
       THEN /\ StartAutoRefresh(autoRefreshMs)
            /\ effectDeps' = {"autoRefreshEnabled", "autoRefreshMs"} \cup RefreshReads
       ELSE /\ StopAutoRefresh
            /\ effectDeps' = {"autoRefreshEnabled", "autoRefreshMs"}
            /\ UNCHANGED << fetchState, inflight, lastRequest >>
  /\ UNCHANGED << signals, destroyed, now >>
  /\ UNCHANGED passive

\* destroyRef.onDestroy: stopAutoRefresh(); the effect is destroyed with the
\* component.
\* Mutant: no destroy callback is registered.
DestroyLeavingTimer ==
  /\ ~destroyed
  /\ destroyed' = TRUE
  /\ effectDirty' = FALSE
  /\ effectDeps' = {}
  /\ UNCHANGED << signals, fetchState, scheduler, inflight, now >>
  /\ UNCHANGED << lastRequest, passive >>

Destroy ==
  /\ ~destroyed
  /\ destroyed' = TRUE
  /\ effectDirty' = FALSE
  /\ effectDeps' = {}
  /\ StopAutoRefresh
  /\ UNCHANGED << signals, fetchState, inflight, now >>
  /\ UNCHANGED << lastRequest, passive >>

(***************************************************************************)
(* The timer callback: () => this.refresh().                               *)
(***************************************************************************)
TimerTick(h) ==
  /\ ~effectDirty
  /\ timers[h].due = now
  /\ RefreshStart("tick")
  /\ timers' = [timers EXCEPT ![h].last = now, ![h].due = now + timers[h].delay]
  /\ UNCHANGED << signals, refreshTimer, effectState, destroyed, now >>
  /\ UNCHANGED passive

(***************************************************************************)
(* refresh() after its await.                                              *)
(***************************************************************************)
RemoveAt(s, i) == SubSeq(s, 1, i - 1) \o SubSeq(s, i + 1, Len(s))

\* Mutant: the fetched records are appended to the ones held.
FetchSucceedMerging(i, data) ==
  /\ ~effectDirty
  /\ opportunities' = opportunities \o data
  /\ lastUpdated' = DateAt(now)
  /\ loading' = FALSE
  /\ inflight' = RemoveAt(inflight, i)
  /\ UNCHANGED << signals, error, scheduler, effectState, destroyed, now >>
  /\ UNCHANGED << lastRequest, passive >>

\* Mutant: a result that arrives after teardown or while auto-refresh is off
\* is thrown away.
FetchSucceedDroppedWhenCancelled(i, data) ==
  /\ ~effectDirty
  /\ IF destroyed \/ ~autoRefreshEnabled
       THEN UNCHANGED << opportunities, lastUpdated >>
       ELSE opportunities' = data /\ lastUpdated' = DateAt(now)
  /\ loading' = FALSE
  /\ inflight' = RemoveAt(inflight, i)
  /\ UNCHANGED << signals, error, scheduler, effectState, destroyed, now >>
  /\ UNCHANGED << lastRequest, passive >>

\* Mutant: only the answer to the request issued last is applied; an answer
\* to an older request is taken as stale.
FetchSucceedLatestIssuedOnly(i, data) ==
  /\ ~effectDirty
  /\ IF i = Len(inflight)
       THEN opportunities' = data /\ lastUpdated' = DateAt(now)
       ELSE UNCHANGED << opportunities, lastUpdated >>
  /\ loading' = FALSE
  /\ inflight' = RemoveAt(inflight, i)
  /\ UNCHANGED << signals, error, scheduler, effectState, destroyed, now >>
  /\ UNCHANGED << lastRequest, passive >>

\* try: opportunities.set(data); lastUpdated.set(new Date()).
\* finally: loading.set(false).
FetchSucceed(i, data) ==
  /\ ~effectDirty
  /\ opportunities' = data
  /\ lastUpdated' = DateAt(now)
  /\ loading' = FALSE
  /\ inflight' = RemoveAt(inflight, i)
  /\ UNCHANGED << signals, error, scheduler, effectState, destroyed, now >>
  /\ UNCHANGED << lastRequest, passive >>

\* catch: the message of an Error, or the fixed text.
FailureMessage(rejection) ==
  IF rejection.isError THEN rejection.message ELSE "Failed to fetch data"

\* Mutant: the catch block also empties the record set.
FetchFailClearing(i, rejection) ==
  /\ ~effectDirty
  /\ error' = ErrorMessage(FailureMessage(rejection))
  /\ opportunities' = << >>
  /\ loading' = FALSE
  /\ inflight' = RemoveAt(inflight, i)
  /\ UNCHANGED << signals, lastUpdated, scheduler, effectState, destroyed, now >>
  /\ UNCHANGED << lastRequest, passive >>

\* Mutant: loading is cleared at the end of the try block, not in a finally.
FetchFailKeepsLoading(i, rejection) ==
  /\ ~effectDirty
  /\ error' = ErrorMessage(FailureMessage(rejection))
  /\ inflight' = RemoveAt(inflight, i)
  /\ UNCHANGED << signals, opportunities, loading, lastUpdated, scheduler,
                  effectState, destroyed, now >>
  /\ UNCHANGED << lastRequest, passive >>

\* Mutant: a failure stops the polling.
FetchFailStoppingTimer(i, rejection) ==
  /\ ~effectDirty
  /\ error' = ErrorMessage(FailureMessage(rejection))
  /\ loading' = FALSE
  /\ inflight' = RemoveAt(inflight, i)
  /\ StopAutoRefresh
  /\ UNCHANGED << signals, opportunities, lastUpdated, effectState, destroyed, now >>
  /\ UNCHANGED << lastRequest, passive >>

FetchFail(i, rejection) ==
  /\ ~effectDirty
  /\ error' = ErrorMessage(FailureMessage(rejection))
  /\ loading' = FALSE
  /\ inflight' = RemoveAt(inflight, i)
  /\ UNCHANGED << signals, opportunities, lastUpdated, scheduler, effectState,
                  destroyed, now >>
  /\ UNCHANGED << lastRequest, passive >>

(***************************************************************************)
(* Time passes, up to the next timer expiry.                               *)
(***************************************************************************)
NextDue == IF DOMAIN timers = {} THEN now + Quantum
           ELSE CHOOSE d \in { timers[h].due : h \in DOMAIN timers } :
                  \A h \in DOMAIN timers : d <= timers[h].due

Advance ==
  /\ ~effectDirty
  /\ NextDue > now
  /\ now' = Min(now + Quantum, NextDue)
  /\ now' <= MaxTime
  /\ inflight' = [i \in 1..Len(inflight) |->
                   [inflight[i] EXCEPT !.age = Min(@ + (now' - now), AgeCap)]]
  /\ UNCHANGED << signals, fetchState, scheduler, effectState, destroyed >>
  /\ UNCHANGED << lastRequest, passive >>

Next ==
  \/ ManualRefresh
  \/ ToggleAutoRefresh
  \/ \E value \in MinDiffInputs : UpdateMinDiff(value)
  \/ \E value \in IntervalInputs : UpdateAutoInterval(value)
  \/ RunEffect
  \/ Destroy
  \/ \E h \in DOMAIN timers : TimerTick(h)
  \/ \E i \in 1..Len(inflight) : \E data \in Payloads : FetchSucceed(i, data)
  \/ \E i \in 1..Len(inflight) : \E rejection \in Rejections : FetchFail(i, rejection)
  \/ Advance

Spec == Init /\ [][Next]_vars

(***************************************************************************)
(* The requests refresh() sends.  The user also edits the API base and may *)
(* type a threshold that is no finite number; every http.get call is       *)
(* logged.                                                                 *)
(***************************************************************************)
\* The API base box of the template writes the apiBase signal.
SetApiBase(value) ==
  /\ ~destroyed
  /\ apiBase' = value
  /\ effectDirty' = (effectDirty \/ Notifies("apiBase", apiBase, apiBase'))
  /\ UNCHANGED << signals, fetchState, scheduler, inflight, effectDeps, destroyed,
                  now, search, lastRequest, view, extended >>

ApiBaseInputs ==
  { DEFAULT_API_BASE \o << "/" >>, << "http://localhost:3000" >> }

ThresholdInputs == MinDiffInputs \cup { StrArg("Infinity") }

NextRequests ==
  \/ ManualRefresh
  \/ ToggleAutoRefresh
  \/ \E value \in ThresholdInputs : UpdateMinDiff(value)
  \/ \E value \in ApiBaseInputs : SetApiBase(value)
  \/ UpdateAutoInterval(NumArg(Fin(MIN_REFRESH_INTERVAL)))
  \/ RunEffect
  \/ \E h \in DOMAIN timers : TimerTick(h)
  \/ \E i \in 1..Len(inflight) : FetchSucceed(i, << >>)
  \/ \E i \in 1..Len(inflight) :
       FetchFail(i, [isError |-> FALSE, message |-> "Http failure response"])
  \/ Advance

SpecRequests == InitLogged /\ [][NextRequests]_vars

(***************************************************************************)
(* filtered = computed(...): the derived view.                             *)
(***************************************************************************)
\* Mutant: a record on the threshold is dropped.
PassesThresholdStrict(item, threshold) ==
  IF NumberIsFinite(threshold)
    THEN NumGeq(Fin(item.netDiff), threshold) /\ Fin(item.netDiff) # threshold
    ELSE TRUE

\* Number.isFinite(threshold) ? item.netDiff >= threshold : true.
PassesThreshold(item, threshold) ==
  IF NumberIsFinite(threshold) THEN NumGeq(Fin(item.netDiff), threshold) ELSE TRUE

\* query ? item.symbol.toUpperCase().includes(query) : true.
MatchesQuery(item, query) ==
  IF query # << >> THEN Includes(ToUpperCase(item.symbol), query) ELSE TRUE

\* The comparator: (a, b) => b.netDiff - a.netDiff.
Compare(a, b) == b.netDiff - a.netDiff

\* Mutant: an element goes in front of the ones it compares equal to.
InsertBeforeEquals(sorted, x) ==
  LET k == Cardinality({ i \in 1..Len(sorted) : Compare(sorted[i], x) < 0 })
  IN SubSeq(sorted, 1, k) \o << x >> \o SubSeq(sorted, k + 1, Len(sorted))

\* Array.prototype.sort is stable: an element goes behind every element
\* that is to stay in front of it or compares equal to it.
InsertSorted(sorted, x) ==
  LET k == Cardinality({ i \in 1..Len(sorted) : Compare(sorted[i], x) <= 0 })
  IN SubSeq(sorted, 1, k) \o << x >> \o SubSeq(sorted, k + 1, Len(sorted))

RECURSIVE Sort(_)
Sort(s) ==
  IF s = << >> THEN << >>
  ELSE InsertSorted(Sort(SubSeq(s, 1, Len(s) - 1)), s[Len(s)])

\* The items filtered() returns.
Filtered(opps, searchText, threshold) ==
  LET query == ToUpperCase(Trim(searchText))
      bySearch == SelectSeq(opps, LAMBDA item : MatchesQuery(item, query))
      byThreshold == SelectSeq(bySearch, LAMBDA item : PassesThreshold(item, threshold))
  IN Sort(byThreshold)

\* Mutant: the raw array is sorted where it is, then filtered.
ReadFilteredInPlace ==
  /\ ~destroyed
  /\ opportunities' = Sort(opportunities)
  /\ view' = [storage |-> "copy",
              items |-> Filtered(opportunities', search, minDiffPercent)]
  /\ UNCHANGED << signals, loading, error, lastUpdated, scheduler, inflight,
                  effectState, destroyed, now, apiBase, search, lastRequest,
                  extended >>

\* The template reads filtered(): spread, filter, filter and sort all work
\* on arrays of their own.
ReadFiltered ==
  /\ ~destroyed
  /\ view' = [storage |-> "copy",
              items |-> Filtered(opportunities, search, minDiffPercent)]
  /\ UNCHANGED << signals, fetchState, scheduler, inflight, effectState,
                  destroyed, now, apiBase, search, lastRequest, extended >>

\* The search box of the template writes the search signal.
SetSearch(value) ==
  /\ ~destroyed
  /\ search' = value
  /\ UNCHANGED << signals, fetchState, scheduler, inflight, effectState,
                  destroyed, now, apiBase, lastRequest, view, extended >>

\* clearSearch().
ClearSearch ==
  /\ ~destroyed
  /\ search' = << >>
  /\ UNCHANGED << signals, fetchState, scheduler, inflight, effectState,
                  destroyed, now, apiBase, lastRequest, view, extended >>

WETH == << "w", "E", "T", "H" >>

SearchInputs ==
  { << "e", "t" >>, << " ", "E", "T", " " >>, << " " >>, << "x" >>, << "T" >> }

ViewThresholdInputs ==
  { NumArg(Fin(5)), NumArg(Fin(12)), StrArg("abc"), StrArg("Infinity") }

ViewPayloads ==
  { << >>,
    << Rec(BTC, 12), Rec(ETH, 12), Rec(LTC, 3) >>,
    << Rec(LTC, 3), Rec(ETH, 12), Rec(WETH, 5), Rec(BTC, 12) >> }

NextView ==
  \/ \E value \in SearchInputs : SetSearch(value)
  \/ ClearSearch
  \/ \E value \in ViewThresholdInputs : UpdateMinDiff(value)
  \/ ManualRefresh
  \/ RunEffect
  \/ \E i \in 1..Len(inflight) : \E data \in ViewPayloads : FetchSucceed(i, data)
  \/ ReadFiltered

SpecView == Init /\ [][NextView]_vars

(***************************************************************************)
(* The later versions of the component: the user picks the sort key and    *)
(* direction and may switch the minimum filter off (minRange there is the  *)
(* threshold, minDiffPercent here).  refresh() sends the threshold only if *)
(* the minimum filter is on, and resets the sort when it succeeds.         *)
(***************************************************************************)
SortKeys == { "netDiff", "diff", "min", "max" }

\* changeSort(key).
ChangeSort(key) ==
  /\ ~destroyed
  /\ IF sortKey = key
       THEN /\ sortDir' = (IF sortDir = "asc" THEN "desc" ELSE "asc")
            /\ UNCHANGED sortKey
       ELSE /\ sortKey' = key
            /\ sortDir' = (IF key = "min" THEN "asc" ELSE "desc")
  /\ UNCHANGED << signals, fetchState, scheduler, inflight, effectState,
                  destroyed, now, apiBase, search, lastRequest, view, useMinFilter >>

\* The minimum-filter switch of the template writes useMinFilter.
ToggleUseMinFilter ==
  /\ ~destroyed
  /\ useMinFilter' = ~useMinFilter
  /\ UNCHANGED << signals, fetchState, scheduler, inflight, effectState,
                  destroyed, now, apiBase, search, lastRequest, view, sortKey,
                  sortDir >>

\* params = {}; if (this.useMinFilter()) params['minDiffPercent'] = ...
ExtendedRequest(base, enabled, threshold) ==
  [logged |-> TRUE, url |-> RequestUrl(base),
   params |-> IF enabled THEN RequestParams(threshold) ELSE [name \in {} |-> ""]]

\* The refresh button: refresh() up to its await.
ExtendedRefresh ==
  /\ ~destroyed
  /\ Len(inflight) < MaxInFlight
  /\ loading' = TRUE
  /\ error' = NoError
  /\ lastRequest' = IF lastRequest.logged
                      THEN ExtendedRequest(apiBase, useMinFilter, minDiffPercent)
                      ELSE lastRequest
  /\ inflight' = Append(inflight, Fetch("manual"))
  /\ UNCHANGED << signals, opportunities, lastUpdated, scheduler, effectState,
                  destroyed, now, passive >>

\* try: opportunities.set(data); lastUpdated.set(new Date()); resetSort().
\* finally: loading.set(false).
ExtendedFetchSucceed(i, data) ==
  /\ ~effectDirty
  /\ opportunities' = data
  /\ lastUpdated' = DateAt(now)
  /\ sortKey' = "netDiff"
  /\ sortDir' = "desc"
  /\ loading' = FALSE
  /\ inflight' = RemoveAt(inflight, i)
  /\ UNCHANGED << signals, error, scheduler, effectState, destroyed, now,
                  apiBase, search, lastRequest, view, useMinFilter >>

NextExtended ==
  \/ \E key \in SortKeys : ChangeSort(key)
  \/ ToggleUseMinFilter
  \/ ExtendedRefresh
  \/ RunEffect
  \/ \E i \in 1..Len(inflight) : \E data \in Payloads : ExtendedFetchSucceed(i, data)
  \/ \E i \in 1..Len(inflight) : \E rejection \in Rejections : FetchFail(i, rejection)

SpecExtended == InitLogged /\ [][NextExtended]_vars

(***************************************************************************)
(* Observations on a step or a state, used by the properties below.        *)
(***************************************************************************)
\* The step issued a request; the new one is the last in issue order.
FetchIssued(origin) ==
  /\ Len(inflight') = Len(inflight) + 1
  /\ inflight'[Len(inflight')].origin = origin

\* The step settled a request.
FetchCompleted == Len(inflight') < Len(inflight)

InFlightFrom(origin) == { i \in 1..Len(inflight) : inflight[i].origin = origin }

Running == refreshTimer # NoTimer

(***************************************************************************)
(* Scheduler                                                               *)
(***************************************************************************)
\* C1: in every reachable state the live timers are exactly the one the
\* scheduler's handle refers to, or none when the handle is null: at most one
\* timer is live and none runs unreferenced.
C1_SingleOwnedTimer ==
  /\ Cardinality(DOMAIN timers) <= 1
  /\ DOMAIN timers = (IF refreshTimer = NoTimer THEN {} ELSE {refreshTimer})

\* The scheduler was started twice in a row (both enable-triggered requests
\* are still out) and one timer is live.
C1_Witness ==
  /\ Running
  /\ Cardinality(InFlightFrom("enable")) = 2
  /\ DOMAIN timers = {refreshTimer}

\* C2: a step that takes the scheduler from IDLE to RUNNING issues exactly
\* one request and arms exactly one timer; every expiry of a timer issues
\* exactly one request, and comes one clamped interval (the value the timer
\* was armed with) after the timer was armed or last expired.
C2_EnableFetchesThenTicksOneIntervalApart ==
  [][ /\ (~Running /\ Running') =>
           /\ FetchIssued("enable")
           /\ DOMAIN timers' = {refreshTimer'}
      /\ \A h \in DOMAIN timers : TimerTick(h) =>
           /\ FetchIssued("tick")
           /\ Fin(now - timers[h].last) = timers[h].ms
    ]_vars

\* C3: once the effect has run with auto-refresh disabled, or the component
\* is destroyed, the handle is null and no timer is live; and a timer expiry
\* issues a request only while auto-refresh is enabled and the component is
\* alive.
C3_IdleHasNoTimerAndNoTicks ==
  [][ /\ (destroyed' \/ (~effectDirty' /\ ~autoRefreshEnabled')) =>
           (refreshTimer' = NoTimer /\ DOMAIN timers' = {})
      /\ FetchIssued("tick") => (autoRefreshEnabled /\ ~destroyed)
    ]_vars

\* The scheduler ran (a request issued by a timer expiry is still out), then
\* auto-refresh was disabled and the effect has run: IDLE.
C3_Witness ==
  /\ ~autoRefreshEnabled
  /\ ~effectDirty
  /\ ~destroyed
  /\ InFlightFrom("tick") # {}
  /\ refreshTimer = NoTimer
  /\ DOMAIN timers = {}

\* C4: when the effect runs while RUNNING with an interval other than the
\* one the live timer was armed with, afterwards the only live timer is
\* armed with the new clamped interval and its next expiry is a full new
\* interval away.
C4_IntervalChangeRestartsFullWait ==
  [][ ( /\ Running
        /\ Running'
        /\ effectDirty /\ ~effectDirty'
        /\ timers[refreshTimer].ms # ClampInterval(autoRefreshMs) ) =>
      ( /\ DOMAIN timers' = {refreshTimer'}
        /\ timers'[refreshTimer'].ms = ClampInterval(autoRefreshMs)
        /\ Fin(timers'[refreshTimer'].due - now) = ClampInterval(autoRefreshMs) )
    ]_vars

\* C5: every live timer expires with a period of at least the floor.
C5_PeriodAtLeastFloor ==
  \A h \in DOMAIN timers : timers[h].delay >= MIN_REFRESH_INTERVAL

\* C6: a step that issues a manual request issues exactly that one and
\* leaves the handle, the live timers (period and next expiry), the clock,
\* autoRefreshEnabled and autoRefreshMs as they were.
C6_ManualRefreshLeavesScheduler ==
  [][ FetchIssued("manual") =>
        /\ SubSeq(inflight', 1, Len(inflight)) = inflight
        /\ UNCHANGED << refreshTimer, timers, now, autoRefreshEnabled, autoRefreshMs >>
    ]_vars

\* RUNNING, part of the interval has elapsed, and a manual request has just
\* been issued.
C6_Witness ==
  /\ Running
  /\ now > timers[refreshTimer].last
  /\ now < timers[refreshTimer].due
  /\ \E i \in InFlightFrom("manual") : inflight[i].age = 0

(***************************************************************************)
(* Fetch                                                                   *)
(***************************************************************************)
\* C7: a failed request leaves the record set and lastUpdated as they were
\* and sets error to a non-empty message.
C7_FailureKeepsLastKnownGood ==
  [][ \A i \in 1..Len(inflight) : \A rejection \in Rejections :
        FetchFail(i, rejection) =>
          /\ opportunities' = opportunities
          /\ lastUpdated' = lastUpdated
          /\ ~error'.isNull
          /\ error'.message # ""
    ]_vars

\* The record set holds three records, a request has failed, nothing is out.
C7_Witness ==
  /\ Len(opportunities) = 3
  /\ ~error.isNull
  /\ ~loading
  /\ Len(inflight) = 0

\* C8: a successful request replaces the record set by the fetched sequence
\* and sets lastUpdated to the time of completion.
C8_SuccessReplacesWholesale ==
  [][ FetchCompleted =>
        \A i \in 1..Len(inflight) : \A data \in Payloads :
          FetchSucceed(i, data) =>
            /\ opportunities' = data
            /\ lastUpdated' = DateAt(now)
    ]_vars

\* A request completed successfully at the present instant, later than the
\* start, and the record set holds what it delivered.
C8_Witness ==
  /\ now > 0
  /\ lastUpdated = DateAt(now)
  /\ opportunities # << >>
  /\ Len(inflight) = 0

\* C9: whenever a request completes, loading is false afterwards.
C9_CompletionClearsLoading ==
  [][ FetchCompleted => loading' = FALSE ]_vars

\* Requests have completed both ways: nothing is out, one has succeeded, the
\* last one to complete failed, and loading is false.
C9_Witness ==
  /\ Len(inflight) = 0
  /\ ~lastUpdated.isNull
  /\ ~error.isNull
  /\ loading = FALSE

\* C10: as long as every request out has been out for less than the floor
\* (hence less than any clamped interval), at most one request issued by a
\* timer expiry is out.
C10_NoOverlappingTickFetches ==
  (\A i \in 1..Len(inflight) : inflight[i].age < MIN_REFRESH_INTERVAL)
    => Cardinality(InFlightFrom("tick")) <= 1


\* C11: cancelling the scheduler (disable or teardown) leaves the requests
\* that are out where they are, and a request that completes while the
\* component is destroyed or auto-refresh is off has its result applied like
\* any other: record set and lastUpdated on success, error on failure,
\* loading cleared.
C11_InFlightFetchSurvivesCancellation ==
  [][ /\ (Running /\ ~Running') => inflight' = inflight
      /\ (FetchCompleted /\ (destroyed \/ ~autoRefreshEnabled)) =>
           /\ \A i \in 1..Len(inflight) : \A data \in Payloads :
                FetchSucceed(i, data) =>
                  /\ opportunities' = data
                  /\ lastUpdated' = DateAt(now)
                  /\ loading' = FALSE
           /\ \A i \in 1..Len(inflight) : \A rejection \in Rejections :
                FetchFail(i, rejection) =>
                  /\ ~error'.isNull
                  /\ loading' = FALSE
    ]_vars

\* The component was destroyed while a request issued by a timer expiry was
\* out: no timer is left, the request is still pending.
C11_Witness ==
  /\ destroyed
  /\ DOMAIN timers = {}
  /\ InFlightFrom("tick") # {}
  /\ loading

\* C18: a failed request leaves the scheduler as it was: the handle, the
\* live timer with its period and next expiry, the two control signals, and
\* whether the effect is scheduled.
C18_FailureLeavesScheduler ==
  [][ FetchCompleted =>
        \A i \in 1..Len(inflight) : \A rejection \in Rejections :
          FetchFail(i, rejection) =>
            UNCHANGED << refreshTimer, timers, autoRefreshEnabled, autoRefreshMs,
                         effectDirty >>
    ]_vars

\* RUNNING on a timer that has expired at least once, a request has failed,
\* and the timer is still armed for its next expiry.
C18_Witness ==
  /\ Running
  /\ DOMAIN timers = {refreshTimer}
  /\ timers[refreshTimer].last >= MIN_REFRESH_INTERVAL
  /\ timers[refreshTimer].due > now
  /\ ~error.isNull


\* C16: in every state minDiffPercent is not NaN and autoRefreshMs is at
\* least the floor; what updateMinDiff stores for a value that parses to NaN
\* is 0, and what updateAutoInterval stores for a value that parses to NaN
\* or to a number below the floor is the floor.
C16_InvalidInputSanitized ==
  /\ ~NumberIsNaN(minDiffPercent)
  /\ NumGeq(autoRefreshMs, Fin(MIN_REFRESH_INTERVAL))
  /\ \A value \in MinDiffInputs :
       NumberIsNaN(Number(value)) => SanitizeMinDiff(value) = Fin(0)
  /\ \A value \in IntervalInputs :
       ~NumGeq(Number(value), Fin(MIN_REFRESH_INTERVAL)) =>
         SanitizeInterval(value) = Fin(MIN_REFRESH_INTERVAL)

\* Both boxes have taken an invalid entry: the threshold holds 0 and the
\* interval holds the floor.
C16_Witness ==
  /\ minDiffPercent = Fin(0)
  /\ autoRefreshMs = Fin(MIN_REFRESH_INTERVAL)

\* C19: while RUNNING the effect is scheduled to run again only by a step
\* that changes autoRefreshEnabled or autoRefreshMs; no other write (search,
\* minDiffPercent, apiBase) makes it cancel and rearm the timer and fetch.
C19_SchedulerReactsOnlyToControlInputs ==
  [][ (Running /\ ~effectDirty /\ effectDirty') =>
        (autoRefreshEnabled' # autoRefreshEnabled \/ autoRefreshMs' # autoRefreshMs)
    ]_vars

\* C17: the request a step issues has the url made of the apiBase held at
\* that moment, and carries the minDiffPercent parameter, holding the
\* threshold of that moment, exactly if the threshold filter is active (the
\* threshold is a finite number).
C17_RequestFromCurrentInputs ==
  [][ (Len(inflight') = Len(inflight) + 1) =>
        /\ lastRequest'.url = RequestUrl(apiBase)
        /\ ("minDiffPercent" \in DOMAIN lastRequest'.params) <=>
             NumberIsFinite(minDiffPercent)
        /\ NumberIsFinite(minDiffPercent) =>
             lastRequest'.params["minDiffPercent"] = NumberString(minDiffPercent)
    ]_vars

(***************************************************************************)
(* Derived view                                                            *)
(***************************************************************************)
\* s contains q, letters compared without regard to case.
ContainsIgnoringCase(s, q) ==
  \E i \in 1..(Len(s) - Len(q) + 1) :
    \A k \in 1..Len(q) : UpperChar(s[i + k - 1]) = UpperChar(q[k])

Elements(s) == { s[i] : i \in 1..Len(s) }

\* The raw records the threshold does not exclude.
OverThreshold ==
  { r \in Elements(opportunities) :
      NumberIsFinite(minDiffPercent) => r.netDiff >= minDiffPercent.n }

\* The raw records the search text, as the code reads it (trimmed), selects.
Matching ==
  { r \in Elements(opportunities) :
      Trim(search) # << >> => ContainsIgnoringCase(r.symbol, Trim(search)) }

C13_ThresholdKeepsExactlyAtLeast ==
  [][ ReadFiltered =>
        Elements(view'.items) =
          IF NumberIsFinite(minDiffPercent)
            THEN { r \in Matching : r.netDiff >= minDiffPercent.n }
            ELSE Matching
    ]_vars

\* Threshold 1.2: the two records on the threshold are kept, the two below
\* are not.
C13_Witness ==
  /\ minDiffPercent = Fin(12)
  /\ Len(opportunities) = 4
  /\ Elements(view.items) = { Rec(ETH, 12), Rec(BTC, 12) }

C15_ViewReadsOnly ==
  [][ ReadFiltered =>
        /\ UNCHANGED << opportunities, search, minDiffPercent, apiBase,
                        refreshTimer, timers, autoRefreshMs, autoRefreshEnabled,
                        loading, error, lastUpdated, inflight >>
        /\ view'.storage = "copy"
    ]_vars

\* The view holds the four records in order while the raw set still holds
\* them as they arrived.
C15_Witness ==
  /\ view.storage = "copy"
  /\ search = << "T" >>
  /\ opportunities = << Rec(LTC, 3), Rec(ETH, 12), Rec(WETH, 5), Rec(BTC, 12) >>
  /\ view.items = << Rec(ETH, 12), Rec(BTC, 12), Rec(WETH, 5), Rec(LTC, 3) >>

(***************************************************************************)
(* User-entered state                                                      *)
(***************************************************************************)
\* C20: a step that starts a fetch or completes one leaves what the user
\* entered as it was: apiBase, search, the threshold, autoRefreshEnabled,
\* autoRefreshMs, and in the later versions the sort key and direction and
\* the minimum-filter switch.
C20_RefreshKeepsUserState ==
  [][ (Len(inflight') # Len(inflight)) =>
        UNCHANGED << apiBase, search, minDiffPercent, autoRefreshEnabled,
                     autoRefreshMs, sortKey, sortDir, useMinFilter >>
    ]_vars

(***************************************************************************)
(* Consistency of the observable state                                     *)
(***************************************************************************)
\* C21: when the effect has run for the values autoRefreshEnabled and
\* autoRefreshMs hold (it is not scheduled, the component lives), a timer is
\* live exactly if autoRefreshEnabled is true, it is the one the scheduler
\* holds, and its period is the larger of the floor and autoRefreshMs.
C21_SchedulerMatchesSignals ==
  (~effectDirty /\ ~destroyed) =>
    /\ (DOMAIN timers # {}) <=> autoRefreshEnabled
    /\ autoRefreshEnabled =>
         /\ DOMAIN timers = {refreshTimer}
         /\ Fin(timers[refreshTimer].delay) = ClampInterval(autoRefreshMs)

\* C22: while a request is out, loading is true.
C22_LoadingWhileInFlight ==
  Len(inflight) > 0 => loading

\* C23: the raw record set is empty until a request has succeeded; it
\* changes only in a step in which a request succeeds, and every such step,
\* whichever of the pending requests it settles, makes it that request's
\* payload.
C23_RawSetIsLastSuccessPayload ==
  [][ /\ lastUpdated'.isNull => opportunities' = << >>
      /\ (opportunities' # opportunities) =>
           \E i \in 1..Len(inflight) : \E data \in Payloads : FetchSucceed(i, data)
      /\ FetchCompleted =>
           \A i \in 1..Len(inflight) : \A data \in Payloads :
             FetchSucceed(i, data) => opportunities' = data
    ]_vars

\* The constructor's request is still out while a request issued after it
\* has succeeded and its records are held: the requests overlap and complete
\* out of issue order.
C23_Witness ==
  /\ InFlightFrom("constructor") # {}
  /\ ~lastUpdated.isNull
  /\ opportunities # << >>

\* C24: a step that settles the last pending request leaves error null if
\* the request succeeded and non-null if it failed.
C24_ErrorTellsLastOutcome ==
  [][ (FetchCompleted /\ Len(inflight') = 0) =>
        /\ \A i \in 1..Len(inflight) : \A data \in Payloads :
             FetchSucceed(i, data) => error'.isNull
        /\ \A i \in 1..Len(inflight) : \A rejection \in Rejections :
             FetchFail(i, rejection) => ~error'.isNull
    ]_vars

====
